---- MODULE Spec2Model ----
(***************************************************************************)
(* Model of the tool/jig inventory API of src/main.py: three request       *)
(* handlers (create_tool, get_all_tools, update_tool_status) over one      *)
(* worksheet of a remote spreadsheet.  Every gspread call is one remote    *)
(* round trip, so a handler is a sequence of steps, one per call, and the  *)
(* steps of different requests interleave (Spec).  SeqSpec is the same     *)
(* program with each request run to completion before the next begins.     *)
(*                                                                         *)
(* String literals of the source are Japanese; they are written here in    *)
(* romaji:                                                                 *)
(*   columns  工具治具ID = kougu_jigu_ID   名称 = meishou                  *)
(*            型番品番 = kataban_hinban    種類 = shurui                   *)
(*            保管場所 = hokan_basho       状態 = joutai                   *)
(*            購入日 = kounyuu_bi          購入価格 = kounyuu_kakaku       *)
(*            推奨交換時期 = suishou_koukan_jiki   備考 = bikou            *)
(*            画像URL = gazou_URL                                          *)
(*   statuses 在庫 = zaiko (in_stock)     貸出中 = kashidashi_chuu (on_loan)*)
(*            メンテナンス中 = maintenance_chuu (under_maintenance)        *)
(*            廃棄済 = haiki_zumi (disposed)                               *)
(***************************************************************************)
EXTENDS Integers, Sequences, FiniteSets, TLC

VARIABLES sheet, pc, req, loc, resp, calls

vars == <<sheet, pc, req, loc, resp, calls>>

\* ------------------------------------------------------------------ bounds
\* Most data rows the worksheet may hold before create requests are refused
\* by the model.
MaxRows == 2
\* Number of distinct identifiers the generator can draw.
NumIds == 2

Procs == {1, 2}

\* -------------------------------------------------------- python values
\* A Python value: str, number (int or float, compared by value) or None.
PyStr(s) == [t |-> "str", s |-> s, n |-> 0]
PyNum(n) == [t |-> "num", s |-> "", n |-> n]
PyNone == [t |-> "none", s |-> "", n |-> 0]

\* Python truthiness: "", 0 and None are false.
Truthy(v) == \/ v.t = "str" /\ v.s # ""
             \/ v.t = "num" /\ v.n # 0

\* dict.get(key, default)
DictGet(d, key, default) == IF key \in DOMAIN d THEN d[key] ELSE default

\* The numeric literals that occur in cells of the model, with their values.
NumericLiterals == {<<"0", 0>>, <<"1500", 1500>>}

IsNumeric(s) == \E l \in NumericLiterals : l[1] = s

NumValue(s) == (CHOOSE l \in NumericLiterals : l[1] = s)[2]

\* gspread numericise: a cell that parses as a number is read as that
\* number, any other cell (the blank one included) as the string it holds.
Numericise(s) == IF IsNumeric(s) THEN PyNum(NumValue(s)) ELSE PyStr(s)

\* The cell a Python value becomes when append_row / update_cell sends it.
CellOf(v) ==
    IF v.t = "str" THEN v.s
    ELSE IF v.t = "num" /\ \E l \in NumericLiterals : l[2] = v.n
         THEN (CHOOSE l \in NumericLiterals : l[2] = v.n)[1]
         ELSE ""

\* ---------------------------------------------------------------- schema
COL_ID == "kougu_jigu_ID"
COL_NAME == "meishou"
COL_MODEL == "kataban_hinban"
COL_TYPE == "shurui"
COL_LOCATION == "hokan_basho"
COL_STATUS == "joutai"
COL_DATE == "kounyuu_bi"
COL_PRICE == "kounyuu_kakaku"
COL_REPLACEMENT == "suishou_koukan_jiki"
COL_REMARKS == "bikou"
COL_IMAGE == "gazou_URL"

\* The full known column set, in the order get_all_tools reads it.
FullHeader == <<COL_ID, COL_NAME, COL_MODEL, COL_TYPE, COL_LOCATION, COL_STATUS,
                COL_DATE, COL_PRICE, COL_REPLACEMENT, COL_REMARKS, COL_IMAGE>>

\* Literal["在庫", "貸出中", "メンテナンス中", "廃棄済"]
StatusLiteral == {"zaiko", "kashidashi_chuu", "maintenance_chuu", "haiki_zumi"}

\* The fields of ToolBase, by their Python names.
ToolBaseFields == {"name", "modelNumber", "type", "storageLocation", "status",
                   "purchaseDate", "purchasePrice", "recommendedReplacement",
                   "remarks", "imageUrl"}

\* --------------------------------------------------------- the worksheet
\* The worksheet is a sequence of rows of cells; row 1 is the header row.
Range(seq) == {seq[i] : i \in 1..Len(seq)}

\* list.index(x): the first position of x, 1-based here.
IndexOf(seq, x) == CHOOSE i \in 1..Len(seq) : seq[i] = x /\ \A j \in 1..(i - 1) : seq[j] # x

\* worksheet.row_values(1)
RowValues1(sh) == sh[1]

\* worksheet.get_all_records(): one dict per data row, keyed by the header
\* row, every cell numericised.
GetAllRecords(sh) ==
    [i \in 1..(Len(sh) - 1) |->
        [c \in Range(sh[1]) |-> Numericise(sh[i + 1][IndexOf(sh[1], c)])]]

\* worksheet.append_row(values)
AppendRow(sh, values) == Append(sh, [i \in 1..Len(values) |-> CellOf(values[i])])

\* worksheet.update_cell(row, col, value), row and col 1-based.
UpdateCell(sh, row, col, value) == [sh EXCEPT ![row] = [@ EXCEPT ![col] = value]]

\* The QR image of an identifier: a deterministic function of it.
generate_qr_code_base64(data) == <<"qr", data>>

\* ------------------------------------------------------ request validation
\* Mutant: status declared with a default instead of Field(...).
ToolBaseAcceptsStatusOptional(body) ==
    /\ {"name", "modelNumber", "type", "storageLocation"} \subseteq DOMAIN body
    /\ ("status" \in DOMAIN body
            => body["status"] \in {PyStr(s) : s \in StatusLiteral})

\* Pydantic validation of a ToolBase body: name, modelNumber, type,
\* storageLocation and status are required (Field(...)), status is one of
\* the Literal's values.
RequiredFields == {"name", "modelNumber", "type", "storageLocation", "status"}

ToolBaseAccepts(body) ==
    /\ RequiredFields \subseteq DOMAIN body
    /\ body["status"] \in {PyStr(s) : s \in StatusLiteral}

\* The validated model: absent optional fields take their defaults.
FieldDefault(f) == IF f = "purchasePrice" THEN PyNum(0) ELSE PyStr("")

ToolBaseModel(body) ==
    [f \in ToolBaseFields |-> IF f \in DOMAIN body THEN body[f] ELSE FieldDefault(f)]

\* Mutant: status declared str instead of the Literal.
ToolUpdateStatusAcceptsAnyStr(body) == "status" \in DOMAIN body

\* Pydantic validation of a ToolUpdateStatus body.
ToolUpdateStatusAccepts(body) ==
    /\ "status" \in DOMAIN body
    /\ body["status"] \in {PyStr(s) : s \in StatusLiteral}

\* ------------------------------------------------------------- create_tool
\* The key model_dump(by_alias=True) gives a ToolBase field: ToolBase
\* declares no alias, so it is the Python field name.
DumpKey(f) == f

\* tool_data.model_dump(by_alias=True, exclude_none=True)
ModelDumpByAlias(tool_data) ==
    LET kept == {f \in ToolBaseFields : tool_data[f] # PyNone}
    IN  [k \in {DumpKey(f) : f \in kept} |->
            tool_data[CHOOSE f \in kept : DumpKey(f) = k]]

\* tool_dict_for_sheet after the price default and the identifier are set.
ToolDictForSheet(tool_data, new_tool_id) ==
    LET d == ModelDumpByAlias(tool_data)
        price == IF COL_PRICE \notin DOMAIN d \/ d[COL_PRICE] = PyNone
                 THEN PyStr("") ELSE d[COL_PRICE]
    IN  [k \in DOMAIN d \cup {COL_PRICE, COL_ID} |->
            IF k = COL_ID THEN PyStr(new_tool_id)
            ELSE IF k = COL_PRICE THEN price ELSE d[k]]

\* values_to_append: one value per header column, "" for an unknown column.
ValuesToAppend(tool_data, new_tool_id, header) ==
    [i \in 1..Len(header) |->
        DictGet(ToolDictForSheet(tool_data, new_tool_id), header[i], PyStr(""))]

\* Mutant: the identifiers are read under a key the records do not have.
ExistingIdsWrongKey(records) ==
    {DictGet(records[i], "ID", PyNone) : i \in
        {j \in 1..Len(records) : Truthy(DictGet(records[j], "ID", PyNone))}}

\* existing_ids: the truthy identifiers of the records read.
ExistingIds(records) ==
    {DictGet(records[i], COL_ID, PyNone) : i \in
        {j \in 1..Len(records) : Truthy(DictGet(records[j], COL_ID, PyNone))}}

\* The identifiers the generator can draw: TOOL-<timestamp>-<2 random bytes>.
IdNames == <<"TOOL-20240101000000-00a1", "TOOL-20240101000000-00b2",
             "TOOL-20240101000001-00a1", "TOOL-20240101000001-00b2">>

IdPool == {IdNames[i] : i \in 1..NumIds}

\* Mutant: the first draw is kept, with no regeneration on collision.
NewToolIdsUnchecked(existing_ids) == IdPool

\* The identifiers the regeneration loop can end with: any draw that is not
\* in existing_ids.
NewToolIds(existing_ids) == {id \in IdPool : PyStr(id) \notin existing_ids}

\* The Tool returned by create_tool.
CreatedTool(tool_data, new_tool_id) ==
    [f \in ToolBaseFields \cup {"id", "qr_code_base64"} |->
        IF f = "id" THEN PyStr(new_tool_id)
        ELSE IF f = "qr_code_base64" THEN generate_qr_code_base64(new_tool_id)
        ELSE IF tool_data[f] = PyNone THEN FieldDefault(f) ELSE tool_data[f]]

\* ----------------------------------------------------------- get_all_tools
\* What float(x) raises ValueError on.
PriceError == [t |-> "error", s |-> "", n |-> 0]

\* float(record.get("購入価格")) if record.get("購入価格") else 0.0
\* A cell that numericise left a non-empty string does not parse as a float.
PriceOf(v) ==
    IF ~Truthy(v) THEN PyNum(0)
    ELSE IF v.t = "num" THEN PyNum(v.n) ELSE PriceError

\* The column each item key is read from.
ColumnOf(f) ==
    CASE f = "id" -> COL_ID
      [] f = "name" -> COL_NAME
      [] f = "modelNumber" -> COL_MODEL
      [] f = "type" -> COL_TYPE
      [] f = "storageLocation" -> COL_LOCATION
      [] f = "status" -> COL_STATUS
      [] f = "purchaseDate" -> COL_DATE
      [] f = "purchasePrice" -> COL_PRICE
      [] f = "recommendedReplacement" -> COL_REPLACEMENT
      [] f = "remarks" -> COL_REMARKS
      [] f = "imageUrl" -> COL_IMAGE

\* formatted_record: the item built from one record.
FormattedRecord(record) ==
    [f \in ToolBaseFields \cup {"id", "qr_code_base64"} |->
        IF f = "qr_code_base64"
        THEN generate_qr_code_base64(DictGet(record, COL_ID, PyNone).s)
        ELSE IF f = "purchasePrice" THEN PriceOf(DictGet(record, COL_PRICE, PyNone))
        ELSE DictGet(record, ColumnOf(f), PyNone)]

\* The response of get_all_tools: records without a truthy identifier are
\* skipped; a price that float() rejects is an uncaught ValueError (500).
GetAllTools(sh) ==
    LET kept == SelectSeq(GetAllRecords(sh),
                          LAMBDA r : Truthy(DictGet(r, COL_ID, PyNone)))
        tools_list == [i \in 1..Len(kept) |-> FormattedRecord(kept[i])]
    IN  IF \E i \in 1..Len(kept) : tools_list[i]["purchasePrice"] = PriceError
        THEN [code |-> 500, body |-> <<>>]
        ELSE [code |-> 200, body |-> tools_list]

\* ------------------------------------------------------ update_tool_status
\* Mutant: the loop tests the identifier for truth instead of comparing it.
MatchesTruthyId(records, tool_id) ==
    {i \in 1..Len(records) : Truthy(DictGet(records[i], COL_ID, PyNone))}

\* The positions (1-based in all_records) of the records whose identifier
\* equals tool_id.
Matches(records, tool_id) ==
    {i \in 1..Len(records) : DictGet(records[i], COL_ID, PyNone) = PyStr(tool_id)}

\* The first matching position; the loop breaks there.
FirstMatch(records, tool_id) ==
    CHOOSE i \in Matches(records, tool_id) : \A j \in Matches(records, tool_id) : i <= j

\* Mutant: the header row is not counted (i + 1 in the code).
RecordRowIndexNoHeader(i) == i

\* record_row_index: enumerate() counts from 0 and the code adds 2; positions
\* here count from 1.
RecordRowIndex(i) == i + 1

\* Mutant: the 0-based list index is passed as the 1-based column.
StatusColIndexZeroBased(headers) == IndexOf(headers, COL_STATUS) - 1

\* status_col_index = headers.index("状態") + 1, list.index being 0-based.
StatusColIndex(headers) == IndexOf(headers, COL_STATUS)

\* Whether Tool(...) validates the values read back from a record: the str
\* fields hold strings, status one of the Literal's values, the price parsed.
ToolAccepts(item) ==
    /\ \A f \in (ToolBaseFields \cup {"id"}) \ {"purchasePrice"} : item[f].t = "str"
    /\ item["status"].s \in StatusLiteral
    /\ item["purchasePrice"] # PriceError

\* The response built from the records read back after the cell write.
UpdatedTool(records, tool_id) ==
    IF Matches(records, tool_id) = {}
    THEN [code |-> 500, body |-> <<>>]
    ELSE LET item == FormattedRecord(records[FirstMatch(records, tool_id)])
         IN  IF ToolAccepts(item) THEN [code |-> 200, body |-> item]
             ELSE [code |-> 500, body |-> <<>>]

\* ------------------------------------------------------------------ inputs
\* Bodies sent to POST /tools/.
MinimalBody ==
    [f \in RequiredFields \cup {"purchasePrice"} |->
        CASE f = "name" -> PyStr("Press Jig")
          [] f = "modelNumber" -> PyStr("PJ-1")
          [] f = "type" -> PyStr("jig")
          [] f = "storageLocation" -> PyStr("Plant1")
          [] f = "status" -> PyStr("zaiko")
          [] f = "purchasePrice" -> PyNone]

FullBody ==
    [f \in ToolBaseFields |->
        CASE f = "name" -> PyStr("Torque Wrench")
          [] f = "modelNumber" -> PyStr("TW-9")
          [] f = "type" -> PyStr("tool")
          [] f = "storageLocation" -> PyStr("Plant2")
          [] f = "status" -> PyStr("kashidashi_chuu")
          [] f = "purchaseDate" -> PyStr("2023-01-01")
          [] f = "purchasePrice" -> PyNum(1500)
          [] f = "recommendedReplacement" -> PyStr("2025-12-31")
          [] f = "remarks" -> PyStr("handle with care")
          [] f = "imageUrl" -> PyStr("https://example.com/image.jpg")]

NoStatusBody == [f \in DOMAIN MinimalBody \ {"status"} |-> MinimalBody[f]]

BadStatusBody == [MinimalBody EXCEPT !["status"] = PyStr("broken")]

CreateBodies == {MinimalBody, FullBody, NoStatusBody, BadStatusBody}

\* Bodies sent to PUT /tools/{tool_id}/status.
UpdateBodies == {[f \in {"status"} |-> PyStr(s)] :
                    s \in {"kashidashi_chuu", "haiki_zumi", "broken"}}

\* ------------------------------------------------------------ initial store
Reverse(seq) == [i \in 1..Len(seq) |-> seq[Len(seq) + 1 - i]]

\* A header row without the status column.
NoStatusHeader == SelectSeq(FullHeader, LAMBDA c : c # COL_STATUS)

\* A row entered in the sheet before the service started.
SeedCell(c) ==
    CASE c = COL_ID -> IdNames[1]
      [] c = COL_NAME -> "Caliper"
      [] c = COL_MODEL -> "CP-3"
      [] c = COL_TYPE -> "tool"
      [] c = COL_LOCATION -> "Plant1"
      [] c = COL_STATUS -> "zaiko"
      [] c = COL_DATE -> "2022-04-01"
      [] c = COL_PRICE -> "1500"
      [] OTHER -> ""

SeedRow(h) == [i \in 1..Len(h) |-> SeedCell(h[i])]

\* The sheets the service may start on: the full column set in two orders,
\* empty or holding one row, and a header that lacks the status column.
InitialSheets ==
    {<<FullHeader>>, <<FullHeader, SeedRow(FullHeader)>>,
     <<Reverse(FullHeader), SeedRow(Reverse(FullHeader))>>,
     <<NoStatusHeader, SeedRow(NoStatusHeader)>>}

NoRequest == [op |-> "none", tool_id |-> "", body |-> <<>>]

NoLocals == [existing_ids |-> {}, new_tool_id |-> "", values |-> <<>>,
             record_row_index |-> -1, status_col_index |-> -1]

NoResponse == [code |-> 0, body |-> <<>>]

Init ==
    /\ sheet \in InitialSheets
    /\ pc = [p \in Procs |-> "idle"]
    /\ req = [p \in Procs |-> NoRequest]
    /\ loc = [p \in Procs |-> NoLocals]
    /\ resp = [p \in Procs |-> NoResponse]
    /\ calls = [p \in Procs |-> <<>>]

\* ----------------------------------------------------------------- actions
\* Data rows in the sheet plus the rows that requests in flight will append.
RowsCommitted ==
    (Len(sheet) - 1) + Cardinality({q \in Procs : pc[q] \in {"c_header", "c_append"}})

\* POST /tools/ with a body ToolBase rejects: 422 before the handler runs.
CreateReject(p) ==
    /\ pc[p] = "idle"
    /\ \E body \in CreateBodies :
          /\ ~ToolBaseAccepts(body)
          /\ req' = [req EXCEPT ![p] = [op |-> "create", tool_id |-> "", body |-> body]]
    /\ resp' = [resp EXCEPT ![p] = [code |-> 422, body |-> <<>>]]
    /\ pc' = [pc EXCEPT ![p] = "done"]
    /\ calls' = [calls EXCEPT ![p] = <<>>]
    /\ UNCHANGED <<sheet, loc>>

\* create_tool, lines 90-95: read all records, draw an identifier that is
\* not among the identifiers read.
CreateRead(p) ==
    /\ pc[p] = "idle"
    /\ RowsCommitted < MaxRows
    /\ \E body \in CreateBodies :
          /\ ToolBaseAccepts(body)
          /\ req' = [req EXCEPT ![p] = [op |-> "create", tool_id |-> "", body |-> body]]
    /\ LET existing_ids == ExistingIds(GetAllRecords(sheet))
       IN  \E id \in NewToolIds(existing_ids) :
              loc' = [loc EXCEPT ![p] = [NoLocals EXCEPT !.existing_ids = existing_ids,
                                                         !.new_tool_id = id]]
    /\ calls' = [calls EXCEPT ![p] = <<"get_all_records">>]
    /\ pc' = [pc EXCEPT ![p] = "c_header"]
    /\ resp' = [resp EXCEPT ![p] = NoResponse]
    /\ UNCHANGED sheet

\* create_tool, lines 99-110: read the header row, position the values.
CreateHeader(p) ==
    /\ pc[p] = "c_header"
    /\ loc' = [loc EXCEPT ![p].values =
                  ValuesToAppend(ToolBaseModel(req[p].body), loc[p].new_tool_id,
                                 RowValues1(sheet))]
    /\ calls' = [calls EXCEPT ![p] = Append(@, "row_values")]
    /\ pc' = [pc EXCEPT ![p] = "c_append"]
    /\ UNCHANGED <<sheet, req, resp>>

\* create_tool, lines 112-124: append the row, return the Tool.
CreateAppend(p) ==
    /\ pc[p] = "c_append"
    /\ sheet' = AppendRow(sheet, loc[p].values)
    /\ calls' = [calls EXCEPT ![p] = Append(@, "append_row")]
    /\ resp' = [resp EXCEPT ![p] =
                   [code |-> 201,
                    body |-> CreatedTool(ToolBaseModel(req[p].body), loc[p].new_tool_id)]]
    /\ pc' = [pc EXCEPT ![p] = "done"]
    /\ UNCHANGED <<req, loc>>

\* get_all_tools: one read of all records.
ListTools(p) ==
    /\ pc[p] = "idle"
    /\ req' = [req EXCEPT ![p] = [op |-> "list", tool_id |-> "", body |-> <<>>]]
    /\ resp' = [resp EXCEPT ![p] = GetAllTools(sheet)]
    /\ calls' = [calls EXCEPT ![p] = <<"get_all_records">>]
    /\ pc' = [pc EXCEPT ![p] = "done"]
    /\ UNCHANGED <<sheet, loc>>

\* PUT /tools/{tool_id}/status with a body ToolUpdateStatus rejects.
UpdateReject(p) ==
    /\ pc[p] = "idle"
    /\ \E tool_id \in IdPool, body \in UpdateBodies :
          /\ ~ToolUpdateStatusAccepts(body)
          /\ req' = [req EXCEPT ![p] = [op |-> "update", tool_id |-> tool_id, body |-> body]]
    /\ resp' = [resp EXCEPT ![p] = [code |-> 422, body |-> <<>>]]
    /\ pc' = [pc EXCEPT ![p] = "done"]
    /\ calls' = [calls EXCEPT ![p] = <<>>]
    /\ UNCHANGED <<sheet, loc>>

\* update_tool_status, lines 174-186: read all records, locate the row; 404
\* when no record has the identifier.
UpdateRead(p) ==
    /\ pc[p] = "idle"
    /\ \E tool_id \in IdPool, body \in UpdateBodies :
          /\ ToolUpdateStatusAccepts(body)
          /\ req' = [req EXCEPT ![p] = [op |-> "update", tool_id |-> tool_id, body |-> body]]
          /\ LET all_records == GetAllRecords(sheet)
             IN  IF Matches(all_records, tool_id) = {}
                 THEN /\ resp' = [resp EXCEPT ![p] = [code |-> 404, body |-> <<>>]]
                      /\ pc' = [pc EXCEPT ![p] = "done"]
                      /\ loc' = loc
                 ELSE /\ resp' = [resp EXCEPT ![p] = NoResponse]
                      /\ pc' = [pc EXCEPT ![p] = "u_header"]
                      /\ loc' = [loc EXCEPT ![p] =
                                    [NoLocals EXCEPT !.record_row_index =
                                        RecordRowIndex(FirstMatch(all_records, tool_id))]]
    /\ calls' = [calls EXCEPT ![p] = <<"get_all_records">>]
    /\ UNCHANGED sheet

\* update_tool_status, lines 189-194: read the header row, find the status
\* column; 500 when the header has none.
UpdateHeader(p) ==
    /\ pc[p] = "u_header"
    /\ LET headers == RowValues1(sheet)
       IN  IF COL_STATUS \notin Range(headers)
           THEN /\ resp' = [resp EXCEPT ![p] = [code |-> 500, body |-> <<>>]]
                /\ pc' = [pc EXCEPT ![p] = "done"]
                /\ loc' = loc
           ELSE /\ loc' = [loc EXCEPT ![p].status_col_index = StatusColIndex(headers)]
                /\ pc' = [pc EXCEPT ![p] = "u_cell"]
                /\ resp' = resp
    /\ calls' = [calls EXCEPT ![p] = Append(@, "row_values")]
    /\ UNCHANGED <<sheet, req>>

\* update_tool_status, line 197: write the status cell.
UpdateWrite(p) ==
    /\ pc[p] = "u_cell"
    /\ sheet' = UpdateCell(sheet, loc[p].record_row_index, loc[p].status_col_index,
                           CellOf(req[p].body["status"]))
    /\ calls' = [calls EXCEPT ![p] = Append(@, "update_cell")]
    /\ pc' = [pc EXCEPT ![p] = "u_readback"]
    /\ UNCHANGED <<req, loc, resp>>

\* Mutant: the Tool returned takes its status from the request
\* (status=tool_update.status) instead of the record read back.
UpdateReadBackRequestedStatus(p) ==
    /\ pc[p] = "u_readback"
    /\ LET r == UpdatedTool(GetAllRecords(sheet), req[p].tool_id)
       IN  resp' = [resp EXCEPT ![p] =
                       IF r.code = 200
                       THEN [r EXCEPT !.body["status"] = req[p].body["status"]]
                       ELSE r]
    /\ calls' = [calls EXCEPT ![p] = Append(@, "get_all_records")]
    /\ pc' = [pc EXCEPT ![p] = "done"]
    /\ UNCHANGED <<sheet, req, loc>>

\* update_tool_status, lines 200-225: read all records again, return the
\* Tool built from the first record with the identifier.
UpdateReadBack(p) ==
    /\ pc[p] = "u_readback"
    /\ resp' = [resp EXCEPT ![p] = UpdatedTool(GetAllRecords(sheet), req[p].tool_id)]
    /\ calls' = [calls EXCEPT ![p] = Append(@, "get_all_records")]
    /\ pc' = [pc EXCEPT ![p] = "done"]
    /\ UNCHANGED <<sheet, req, loc>>

\* The response is sent; the handler's locals are gone.
Return(p) ==
    /\ pc[p] = "done"
    /\ pc' = [pc EXCEPT ![p] = "idle"]
    /\ req' = [req EXCEPT ![p] = NoRequest]
    /\ loc' = [loc EXCEPT ![p] = NoLocals]
    /\ resp' = [resp EXCEPT ![p] = NoResponse]
    /\ calls' = [calls EXCEPT ![p] = <<>>]
    /\ UNCHANGED sheet

Step(p) ==
    \/ CreateReject(p)
    \/ CreateRead(p)
    \/ CreateHeader(p)
    \/ CreateAppend(p)
    \/ ListTools(p)
    \/ UpdateReject(p)
    \/ UpdateRead(p)
    \/ UpdateHeader(p)
    \/ UpdateWrite(p)
    \/ UpdateReadBack(p)
    \/ Return(p)

\* Requests are served concurrently: their steps interleave.
Next == \E p \in Procs : Step(p)

Spec == Init /\ [][Next]_vars

\* No other request is in progress.
Quiet(p) == \A q \in Procs \ {p} : pc[q] = "idle"

\* Every request runs to completion before the next begins.
SeqNext ==
    \E p \in Procs :
        \/ Quiet(p) /\ CreateReject(p)
        \/ Quiet(p) /\ CreateRead(p)
        \/ Quiet(p) /\ CreateHeader(p)
        \/ Quiet(p) /\ CreateAppend(p)
        \/ Quiet(p) /\ ListTools(p)
        \/ Quiet(p) /\ UpdateReject(p)
        \/ Quiet(p) /\ UpdateRead(p)
        \/ Quiet(p) /\ UpdateHeader(p)
        \/ Quiet(p) /\ UpdateWrite(p)
        \/ Quiet(p) /\ UpdateReadBack(p)
        \/ Quiet(p) /\ Return(p)

SeqSpec == Init /\ [][SeqNext]_vars

\* ------------------------------------------------------------------ claims
\* Cells of the sheet, read without the client library.
IdColumn == IndexOf(sheet[1], COL_ID)

DataRows == 2..Len(sheet)

HasStatusColumn == COL_STATUS \in Range(sheet[1])

HeaderIsFullColumnSet == Range(sheet[1]) = Range(FullHeader) /\ Len(sheet[1]) = Len(FullHeader)

ValidStatusValues == {PyStr(s) : s \in StatusLiteral}

\* C1: under sequential use no two rows share an identifier, and the
\* identifier a create is about to write or has written is none of the
\* identifiers it read.
C1_UniqueIdsSequential ==
    /\ \A i, j \in DataRows :
          i # j /\ sheet[i][IdColumn] # "" => sheet[i][IdColumn] # sheet[j][IdColumn]
    /\ \A p \in Procs :
          req[p].op = "create" /\ loc[p].new_tool_id # ""
              => PyStr(loc[p].new_tool_id) \notin loc[p].existing_ids

C1_Witness ==
    \E p \in Procs :
        /\ pc[p] = "done" /\ req[p].op = "create" /\ resp[p].code = 201
        /\ Len(sheet) >= 3
        /\ sheet[Len(sheet)][IdColumn] = loc[p].new_tool_id

\* C2: a created item read back by the list operation has the field values
\* that were submitted (defaults applied), whatever the order of a full header.
C2_CreateListRoundTrip ==
    \A p \in Procs :
        (pc[p] = "done" /\ req[p].op = "create" /\ resp[p].code = 201
            /\ HeaderIsFullColumnSet)
            => LET listed == GetAllTools(sheet)
               IN  /\ listed.code = 200
                   /\ \E i \in 1..Len(listed.body) :
                         /\ listed.body[i]["id"] = resp[p].body["id"]
                         /\ \A f \in ToolBaseFields :
                               listed.body[i][f] = resp[p].body[f]

\* C3: every row with an identifier holds one of the four status values.
C3_StatusAlwaysEnumerated ==
    HasStatusColumn =>
        \A i \in DataRows :
            sheet[i][IdColumn] # ""
                => sheet[i][IndexOf(sheet[1], COL_STATUS)] \in StatusLiteral

\* C4: a status update whose status is outside the four values ends in a
\* validation error (422) with no store call issued, and its step leaves the
\* sheet as it was.
C4_InvalidStatusRejected ==
    [][\A p \in Procs :
          req'[p].op = "update" /\ req'[p].body["status"] \notin ValidStatusValues
              => /\ pc'[p] = "done"
                 /\ resp'[p].code = 422
                 /\ calls'[p] = <<>>
                 /\ (pc[p] # pc'[p] => sheet' = sheet)]_vars

C4_Witness ==
    \E p \in Procs :
        /\ pc[p] = "done" /\ req[p].op = "update"
        /\ req[p].body["status"] = PyStr("broken")
        /\ resp[p].code = 422
        /\ Len(sheet) >= 2 /\ sheet[2][IdColumn] = req[p].tool_id

\* C5: a status update for an id that no row holds ends with 404, issues no
\* cell write and leaves every cell unchanged, also when the header row has
\* no status column.
C5_UnknownIdNotFound ==
    [][\A p \in Procs :
          (/\ pc[p] = "idle" /\ req'[p].op = "update"
           /\ req'[p].body["status"] \in ValidStatusValues
           /\ (\A i \in DataRows : sheet[i][IdColumn] # req'[p].tool_id))
              => (/\ pc'[p] = "done"
                  /\ resp'[p].code = 404
                  /\ calls'[p] = <<"get_all_records">>
                  /\ sheet' = sheet)]_vars

C5_Witness ==
    \E p \in Procs :
        /\ pc[p] = "done" /\ req[p].op = "update" /\ resp[p].code = 404
        /\ ~HasStatusColumn
        /\ Len(sheet) >= 2

\* C6: under sequential use, when a status update of an id to s completes
\* with 200, its response carries that id with status s and a list of the
\* sheet it leaves returns an item with that id whose status is s.
C6_UpdateThenList ==
    [][\A p \in Procs :
          pc[p] = "u_readback" /\ pc'[p] = "done" /\ resp'[p].code = 200
              => /\ resp'[p].body["id"] = PyStr(req[p].tool_id)
                 /\ resp'[p].body["status"] = req[p].body["status"]
                 /\ LET listed == GetAllTools(sheet')
                    IN  /\ listed.code = 200
                        /\ \E i \in 1..Len(listed.body) :
                              /\ listed.body[i]["id"] = PyStr(req[p].tool_id)
                              /\ listed.body[i]["status"] = req[p].body["status"]]_vars

C6_Witness ==
    \E p \in Procs :
        /\ pc[p] = "done" /\ req[p].op = "update" /\ resp[p].code = 200
        /\ resp[p].body["status"] = PyStr("haiki_zumi")
        /\ Len(sheet) >= 3

\* C7: no step changes the header row, removes a row or changes the
\* identifier of a row; the cell write of a status update changes exactly one
\* cell, the one in the status column of a row whose identifier is the
\* requested id.
C7_OneCellRewritten ==
    [][/\ sheet'[1] = sheet[1]
       /\ Len(sheet') >= Len(sheet)
       /\ \A i \in DataRows : sheet'[i][IdColumn] = sheet[i][IdColumn]
       /\ \A p \in Procs :
             pc[p] = "u_cell" /\ pc'[p] = "u_readback"
                 => /\ Len(sheet') = Len(sheet)
                    /\ \E r \in DataRows, c \in 1..Len(sheet[1]) :
                          /\ sheet[1][c] = COL_STATUS
                          /\ sheet[r][IdColumn] = req[p].tool_id
                          /\ sheet'[r][c] = req[p].body["status"].s
                          /\ \A i \in 1..Len(sheet), j \in 1..Len(sheet[1]) :
                                <<i, j>> # <<r, c>> => sheet'[i][j] = sheet[i][j]]_vars

C7_Witness ==
    \E p \in Procs :
        /\ pc[p] = "u_readback"
        /\ Len(sheet) >= 3
        /\ sheet[3][IdColumn] = req[p].tool_id
        /\ sheet[3][IndexOf(sheet[1], COL_STATUS)] = "kashidashi_chuu"

\* C8 as stated: a create request without a status succeeds with the default
\* status in the response and in the row written.
C8_DefaultStatusInStock ==
    \A p \in Procs :
        pc[p] = "done" /\ req[p].op = "create" /\ "status" \notin DOMAIN req[p].body
            => /\ resp[p].code = 201
               /\ resp[p].body["status"] = PyStr("zaiko")
               /\ sheet[Len(sheet)][IndexOf(sheet[1], COL_STATUS)] = "zaiko"

\* C8 amended: a create request without a status is rejected with a
\* validation error (422); no store call is issued and its step leaves the
\* sheet as it was.
C8_MissingStatusRejected ==
    [][\A p \in Procs :
          req'[p].op = "create" /\ "status" \notin DOMAIN req'[p].body
              => /\ pc'[p] = "done"
                 /\ resp'[p].code = 422
                 /\ calls'[p] = <<>>
                 /\ (pc[p] # pc'[p] => sheet' = sheet)]_vars

C8_Witness ==
    \E p \in Procs :
        /\ pc[p] = "done" /\ req[p].op = "create"
        /\ "status" \notin DOMAIN req[p].body
        /\ resp[p].code = 422

\* C9: a create checks its candidate against the rows it read and nothing
\* later: the identifier drawn is in no row of the sheet at the read, and the
\* append writes it whatever the sheet holds by then.  The witness is a sheet
\* in which two rows share an identifier.
C9_CheckAgainstSnapshotOnly ==
    [][\A p \in Procs :
          /\ pc[p] = "idle" /\ pc'[p] = "c_header"
                => \A i \in DataRows : sheet[i][IdColumn] # loc'[p].new_tool_id
          /\ pc[p] = "c_append" /\ pc'[p] = "done"
                => /\ Len(sheet') = Len(sheet) + 1
                   /\ sheet'[Len(sheet')][IdColumn] = loc[p].new_tool_id
                   /\ \A i \in 1..Len(sheet) : sheet'[i] = sheet[i]]_vars

C9_Witness ==
    /\ \A p \in Procs : pc[p] = "done" /\ req[p].op = "create" /\ resp[p].code = 201
    /\ \E i, j \in DataRows :
          i # j /\ sheet[i][IdColumn] # "" /\ sheet[i][IdColumn] = sheet[j][IdColumn]

\* C10: a status update issues its store calls in the order read records,
\* read header, write cell, read records, and its response carries the status
\* the sheet holds at the last read, which need not be the one it requested.
\* The witness: two updates of one id both end with 200, and one of them
\* returns the status the other requested.
UpdateCallOrder == <<"get_all_records", "row_values", "update_cell", "get_all_records">>

C10_ReadBackNotAtomic ==
    [][\A p \in Procs :
          req'[p].op = "update" /\ req'[p].body["status"] \in ValidStatusValues
              => /\ Len(calls'[p]) <= Len(UpdateCallOrder)
                 /\ calls'[p] = SubSeq(UpdateCallOrder, 1, Len(calls'[p]))
                 /\ (pc'[p] = "u_header" => Len(calls'[p]) = 1)
                 /\ (pc'[p] = "u_cell" => Len(calls'[p]) = 2)
                 /\ (pc'[p] = "u_readback" => Len(calls'[p]) = 3)
                 /\ (pc'[p] = "done" /\ resp'[p].code = 200 => Len(calls'[p]) = 4)
                 /\ (pc[p] = "u_readback" /\ pc'[p] = "done" /\ resp'[p].code = 200
                        => \E r \in DataRows :
                              /\ sheet[r][IdColumn] = req[p].tool_id
                              /\ resp'[p].body["status"].s
                                    = sheet[r][IndexOf(sheet[1], COL_STATUS)])]_vars

C10_Witness ==
    \E p, q \in Procs :
        /\ p # q
        /\ pc[p] = "done" /\ req[p].op = "update" /\ resp[p].code = 200
        /\ pc[q] = "done" /\ req[q].op = "update" /\ resp[q].code = 200
        /\ req[p].tool_id = req[q].tool_id
        /\ req[p].body["status"] # req[q].body["status"]
        /\ resp[p].body["status"] = req[q].body["status"]
        /\ resp[q].body["status"] = req[q].body["status"]

====
